---- MODULE Spec2Model ----
(***************************************************************************)
(* AgriBot (src/agribot.py): a Streamlit script that loads a crop table    *)
(* and a district table, extracts crop / district / state names from a     *)
(* chat message and reports how much urea can be saved.                    *)
(*                                                                         *)
(* Text is a sequence of one-character strings.  Numbers read from the     *)
(* tables are integers; a crop requirement may be a midpoint, so it is     *)
(* carried doubled (n_req2 = 2 * n_req).                                   *)
(***************************************************************************)
EXTENDS Integers, Sequences, FiniteSets, TLC

VARIABLES
    crop_input,     \* the crop source the last script run found (lines 18, 60)
    dist_input,     \* the district source the last script run found (lines 19, 61)
    df_crop,        \* crop table of the last script run that reached line 70, or NoneDf
    df_dist,        \* district table of that run, or NoneDf
    error_msg,      \* load error of that run, "" for None
    banner,         \* what lines 73-80 displayed in the last script run
    messages,       \* st.session_state.messages
    entities,       \* parse_input's result in the last chat turn
    call,           \* the last direct call of a lookup function and its value
    crashed,        \* the last script run ended in an uncaught exception
    interrupted,    \* the last chat turn's run was ended by a pending event
    cache,          \* st.cache_data's memo of load_data_v2 (line 28)
    cache_miss      \* the last script run executed the body of load_data_v2

vars == <<crop_input, dist_input, df_crop, df_dist, error_msg, banner,
          messages, entities, call, crashed, interrupted, cache, cache_miss>>

----------------------------------------------------------------------------
(* Bounds *)

MaxTextLen == 3
MaxCropRows == 2
MaxDistRows == 2
MaxTurns == 2
MaxCached == 2

----------------------------------------------------------------------------
(* Characters and the str methods the script uses *)

\* characters a chat message is made of
TextChars == {"a", "b", "A", ".", " "}

\* \w of the re module, over the characters used here
IsWordChar(c) == c \in {"a", "b", "A", "B", "0", "1", "2", "x", "X"}

IsSpace(c) == c = " "

LowerChar(c) ==
    IF c = "A" THEN "a" ELSE IF c = "B" THEN "b" ELSE IF c = "X" THEN "x" ELSE c

UpperChar(c) ==
    IF c = "a" THEN "A" ELSE IF c = "b" THEN "B" ELSE IF c = "x" THEN "X" ELSE c

IsLetter(c) == c \in {"a", "b", "A", "B", "x", "X"}

\* str.lower()
Lower(s) == [i \in 1..Len(s) |-> LowerChar(s[i])]

\* str.strip()
RECURSIVE LStrip(_)
LStrip(s) == IF s # <<>> /\ IsSpace(Head(s)) THEN LStrip(Tail(s)) ELSE s

RECURSIVE RStrip(_)
RStrip(s) ==
    IF s # <<>> /\ IsSpace(s[Len(s)]) THEN RStrip(SubSeq(s, 1, Len(s) - 1)) ELSE s

Strip(s) == RStrip(LStrip(s))

\* str.title(): a letter is upper-cased after a non-letter, lower-cased after a letter
Title(s) ==
    [i \in 1..Len(s) |->
        IF i = 1 \/ ~IsLetter(s[i - 1]) THEN UpperChar(s[i]) ELSE LowerChar(s[i])]

\* all texts of at most n characters over the set cs
Texts(cs, n) == UNION {[1..k -> cs] : k \in 0..n}

----------------------------------------------------------------------------
(* Data sources and load_data_v2 *)

NoneDf == [is_none |-> TRUE, columns |-> {}, rows |-> <<>>]

\* c1['crop_lower'] = c1['crop'].astype(str).str.lower().str.strip()
NormKey(raw) == Strip(Lower(raw))

\* lines 38, 42, 46-47: the crop frame of a readable source
NormCrop(cs) ==
    IF "crop" \in cs.columns
    THEN [is_none |-> FALSE,
          columns |-> cs.columns \cup {"crop_lower"},
          rows |-> [i \in 1..Len(cs.rows) |->
                      [crop |-> cs.rows[i].crop, N |-> cs.rows[i].N,
                       crop_lower |-> NormKey(cs.rows[i].crop)]]]
    ELSE [is_none |-> FALSE,
          columns |-> cs.columns,
          rows |-> [i \in 1..Len(cs.rows) |->
                      [crop |-> cs.rows[i].crop, N |-> cs.rows[i].N,
                       crop_lower |-> <<>>]]]

\* lines 39, 43, 49-51: the district frame of a readable source
NormDist(ds) ==
    IF "district" \in ds.columns /\ "state" \in ds.columns
    THEN [is_none |-> FALSE,
          columns |-> ds.columns \cup {"district_lower", "state_lower"},
          rows |-> [i \in 1..Len(ds.rows) |->
                      [district |-> ds.rows[i].district,
                       state |-> ds.rows[i].state,
                       soil |-> ds.rows[i].soil,
                       district_lower |-> NormKey(ds.rows[i].district),
                       state_lower |-> NormKey(ds.rows[i].state)]]]
    ELSE [is_none |-> FALSE,
          columns |-> ds.columns,
          rows |-> [i \in 1..Len(ds.rows) |->
                      [district |-> ds.rows[i].district,
                       state |-> ds.rows[i].state,
                       soil |-> ds.rows[i].soil,
                       district_lower |-> <<>>,
                       state_lower |-> <<>>]]]

\* lines 29-57: the body of load_data_v2.  pd.read_csv raising is the source's
\* "readable" being FALSE.
load_data_v2_body(cs, ds) ==
    IF cs.readable /\ ds.readable
    THEN [crop |-> NormCrop(cs), dist |-> NormDist(ds), err |-> ""]
    ELSE [crop |-> NoneDf, dist |-> NoneDf, err |-> "read_error"]

\* line 28: what st.cache_data hashes of an argument.  A default source is passed as
\* its path ('C1.csv', 'Fdistrict.csv'), whatever the file holds; an uploaded file is
\* hashed by its file name, its read position and its content.
DefaultPath == [origin |-> "default", name |-> "path", pos |-> 0, exists |-> TRUE,
                readable |-> TRUE, columns |-> {}, rows |-> <<>>]

CacheKey(src) == IF src.origin = "default" THEN DefaultPath ELSE src

\* the memo's entries for a call on cs and ds
Memo(c, cs, ds) ==
    {e \in c : e.crop_key = CacheKey(cs) /\ e.dist_key = CacheKey(ds)}

\* lines 64-70: load_data_v2 is called unless a default file is missing
LoaderReached(cs, ds) ==
    /\ ~(cs.origin = "default" /\ ~cs.exists)
    /\ ~(ds.origin = "default" /\ ~ds.exists)

\* lines 28, 70: the call executes the body of load_data_v2
Misses(c, cs, ds) == LoaderReached(cs, ds) /\ Memo(c, cs, ds) = {}

\* lines 28-57: the memoized function.  A memoized value is returned without reading
\* the sources; the error tuple of a failed read is memoized like any other value.
load_data_v2(c, cs, ds) ==
    IF Memo(c, cs, ds) # {}
    THEN (CHOOSE e \in Memo(c, cs, ds) : TRUE).value
    ELSE load_data_v2_body(cs, ds)

\* line 28: the memo after a call on cs and ds
CacheAfter(c, cs, ds) ==
    IF Misses(c, cs, ds)
    THEN c \cup {[crop_key |-> CacheKey(cs), dist_key |-> CacheKey(ds),
                  value |-> load_data_v2_body(cs, ds)]}
    ELSE c

\* lines 60-70: the tables and the error a script run ends up with, the memo being c
LoadResult(c, cs, ds) ==
    IF cs.origin = "default" /\ ~cs.exists
    THEN [crop |-> NoneDf, dist |-> NoneDf, err |-> "crop_file_missing"]
    ELSE IF ds.origin = "default" /\ ~ds.exists
    THEN [crop |-> NoneDf, dist |-> NoneDf, err |-> "district_file_missing"]
    ELSE load_data_v2(c, cs, ds)

\* lines 73-80: the message shown above the chat
Banner(cs, ds, r) ==
    IF r.err # ""
    THEN IF cs.origin = "upload" \/ ds.origin = "upload"
         THEN "error_reading_file"
         ELSE "waiting_for_data"
    ELSE IF r.crop.is_none \/ r.dist.is_none
    THEN "data_not_loaded"
    ELSE "none"

----------------------------------------------------------------------------
(* Lookup layer: get_crop_n_req, get_soil_n_data *)

Digits == {"0", "1", "2"}

DigitVal(c) == IF c = "0" THEN 0 ELSE IF c = "1" THEN 1 ELSE 2

\* float() accepts s: over the characters used here, a non-empty run of digits
IsFloat(s) == s # <<>> /\ \A i \in 1..Len(s) : s[i] \in Digits

RECURSIVE FloatOf(_)
FloatOf(s) ==
    IF s = <<>> THEN 0 ELSE 10 * FloatOf(SubSeq(s, 1, Len(s) - 1)) + DigitVal(s[Len(s)])

\* str.split('-')
RECURSIVE Split(_)
Split(s) ==
    IF \E i \in 1..Len(s) : s[i] = "-"
    THEN LET i == CHOOSE j \in 1..Len(s) : s[j] = "-" /\ \A k \in 1..(j - 1) : s[k] # "-"
         IN <<SubSeq(s, 1, i - 1)>> \o Split(SubSeq(s, i + 1, Len(s)))
    ELSE <<s>>

\* pandas reads a column whose every cell is an integer literal as int64
IsIntLiteral(s) ==
    \/ IsFloat(s)
    \/ Len(s) > 1 /\ s[1] = "-" /\ IsFloat(Tail(s))

NColumnIsInt(df) == \A i \in 1..Len(df.rows) : IsIntLiteral(df.rows[i].N)

Value(v) == [kind |-> "value", v |-> v, exc |-> ""]
NoneVal == [kind |-> "none", v |-> 0, exc |-> ""]
Raise(e) == [kind |-> "raise", v |-> 0, exc |-> e]

\* indices of the rows df_crop[df_crop['crop_lower'] == crop_name]
CropRowsOf(df, crop_name) ==
    {i \in 1..Len(df.rows) : df.rows[i].crop_lower = crop_name}

\* a range collapsed to its lower end instead of its midpoint
CropCellValue_MutLow(df, val) ==
    IF \E i \in 1..Len(val) : val[i] = "-"
    THEN IF NColumnIsInt(df)
         THEN Raise("AttributeError")
         ELSE LET parts == Split(val)
              IN IF Len(parts) = 2 /\ IsFloat(parts[1]) /\ IsFloat(parts[2])
                 THEN Value(2 * FloatOf(parts[1]))
                 ELSE Raise("ValueError")
    ELSE IF IsFloat(val) THEN Value(2 * FloatOf(val)) ELSE NoneVal

\* lines 93-101 on the cell val of the first matching row; the value is doubled
CropCellValue(df, val) ==
    IF \E i \in 1..Len(val) : val[i] = "-"
    THEN IF NColumnIsInt(df)
         THEN Raise("AttributeError")                       \* numpy.int64 has no split
         ELSE LET parts == Split(val)
              IN IF Len(parts) = 2 /\ IsFloat(parts[1]) /\ IsFloat(parts[2])
                 THEN Value(FloatOf(parts[1]) + FloatOf(parts[2]))   \* 2 * (low + high) / 2
                 ELSE Raise("ValueError")                   \* float('') or the unpacking
    ELSE IF IsFloat(val) THEN Value(2 * FloatOf(val)) ELSE NoneVal

\* lines 84-101
get_crop_n_req(df, crop_name) ==
    IF df.is_none THEN NoneVal
    ELSE IF "crop_lower" \notin df.columns THEN Raise("KeyError")
    ELSE IF CropRowsOf(df, crop_name) = {} THEN NoneVal
    ELSE IF "N" \notin df.columns THEN Raise("KeyError")
    ELSE LET i == CHOOSE j \in CropRowsOf(df, crop_name) :
                      \A k \in CropRowsOf(df, crop_name) : j <= k
         IN CropCellValue(df, df.rows[i].N)

\* the mask taken on the columns as read, not on the normalized ones
SoilRowsOf_MutRaw(df, district, state) ==
    {i \in 1..Len(df.rows) :
        df.rows[i].district = district /\ df.rows[i].state = state}

SoilRowsOf(df, district, state) ==
    {i \in 1..Len(df.rows) :
        df.rows[i].district_lower = district /\ df.rows[i].state_lower = state}

\* lines 103-112
get_soil_n_data(df, district, state) ==
    IF df.is_none THEN NoneVal
    ELSE IF "district_lower" \notin df.columns \/ "state_lower" \notin df.columns
    THEN Raise("KeyError")
    ELSE IF SoilRowsOf(df, district, state) = {} THEN NoneVal
    ELSE IF "soil" \notin df.columns THEN Raise("KeyError")
    ELSE LET i == CHOOSE j \in SoilRowsOf(df, district, state) :
                      \A k \in SoilRowsOf(df, district, state) : j <= k
         IN Value(df.rows[i].soil)

----------------------------------------------------------------------------
(* Recommendation engine: calculate_reduction *)

\* urea is 46% nitrogen: the 0.46 of line 126, in percent
UreaNPercent == 46

\* n / d rounded to the nearest integer (d > 0); the quotients formed here never tie
RoundDiv(n, d) == (2 * n + d) \div (2 * d)

CropNotFound(crop) == [kind |-> "crop_not_found", crop |-> Title(crop)]

SoilNotFound(district, state) ==
    [kind |-> "soil_not_found", district |-> Title(district), state |-> Title(state)]

Uncaught(e) == [kind |-> "raise", exc |-> e]

\* a negative excess reported as no excess
Report_MutClamp(district, state, crop, n_req2, soil_n) ==
    LET excess2 == IF 2 * soil_n < n_req2 THEN 0 ELSE 2 * soil_n - n_req2
    IN [kind |-> "report",
        crop |-> Title(crop), district |-> Title(district), state |-> Title(state),
        n_req2 |-> n_req2, soil_n |-> soil_n, excess2 |-> excess2,
        savings_num |-> excess2 * 100, savings_den |-> 2 * UreaNPercent,
        n_req_1f |-> 5 * n_req2, soil_1f |-> 10 * soil_n, excess_1f |-> 5 * excess2,
        savings_2f |-> RoundDiv(excess2 * 100 * 100, 2 * UreaNPercent)]

\* lines 124-137.  excess2 is 2 * excess_n; potential_savings is savings_num / savings_den;
\* the *_1f and *_2f fields are the numbers as printed, in tenths and in hundredths.
Report(district, state, crop, n_req2, soil_n) ==
    LET excess2 == 2 * soil_n - n_req2
    IN [kind |-> "report",
        crop |-> Title(crop), district |-> Title(district), state |-> Title(state),
        n_req2 |-> n_req2, soil_n |-> soil_n, excess2 |-> excess2,
        savings_num |-> excess2 * 100, savings_den |-> 2 * UreaNPercent,
        n_req_1f |-> 5 * n_req2, soil_1f |-> 10 * soil_n, excess_1f |-> 5 * excess2,
        savings_2f |-> RoundDiv(excess2 * 100 * 100, 2 * UreaNPercent)]

\* lines 114-137
calculate_reduction(dfc, dfd, district, state, crop) ==
    LET n_req == get_crop_n_req(dfc, crop)
        soil_n == get_soil_n_data(dfd, district, state)
    IN IF n_req.kind = "raise" THEN Uncaught(n_req.exc)
       ELSE IF n_req.kind = "none" THEN CropNotFound(crop)
       ELSE IF soil_n.kind = "raise" THEN Uncaught(soil_n.exc)
       ELSE IF soil_n.kind = "none" THEN SoilNotFound(district, state)
       ELSE Report(district, state, crop, n_req.v, soil_n.v)

----------------------------------------------------------------------------
(* Entity extractor: parse_input *)

\* \b at offset p of text (between text[p] and text[p + 1])
WordAt(text, i) == i >= 1 /\ i <= Len(text) /\ IsWordChar(text[i])

Boundary(text, p) == WordAt(text, p) # WordAt(text, p + 1)

\* re.search(r'\b' + re.escape(key) + r'\b', text)
re_search(key, text) ==
    \E p \in 0..(Len(text) - Len(key)) :
        /\ SubSeq(text, p + 1, p + Len(key)) = key
        /\ Boundary(text, p)
        /\ Boundary(text, p + Len(key))

\* Series.unique(): the distinct values in order of first appearance
RECURSIVE Unique(_)
Unique(s) ==
    IF s = <<>> THEN <<>>
    ELSE LET init == SubSeq(s, 1, Len(s) - 1)
             last == s[Len(s)]
         IN IF \E i \in 1..Len(init) : init[i] = last
            THEN Unique(init)
            ELSE Append(Unique(init), last)

\* the for loops of lines 148-152, 157-160, 165-168: the entries of vocab that match,
\* of which the loop keeps the first
Matching(vocab, text) == {i \in 1..Len(vocab) : re_search(vocab[i], text)}

FirstMatching(vocab, text) ==
    vocab[CHOOSE i \in Matching(vocab, text) : \A k \in Matching(vocab, text) : i <= k]

Column(df, col) == [i \in 1..Len(df.rows) |-> df.rows[i][col]]

\* lines 145-152
FoundCrop(dfc, text) ==
    IF "crop_lower" \in dfc.columns /\ Matching(Unique(Column(dfc, "crop_lower")), text) # {}
    THEN "crop" :> FirstMatching(Unique(Column(dfc, "crop_lower")), text)
    ELSE <<>>

\* lines 154-160
FoundDistrict(dfd, text) ==
    IF "district_lower" \in dfd.columns
       /\ Matching(Unique(Column(dfd, "district_lower")), text) # {}
    THEN "district" :> FirstMatching(Unique(Column(dfd, "district_lower")), text)
    ELSE <<>>

\* lines 162-168
FoundState(dfd, text) ==
    IF "state_lower" \in dfd.columns
       /\ Matching(Unique(Column(dfd, "state_lower")), text) # {}
    THEN "state" :> FirstMatching(Unique(Column(dfd, "state_lower")), text)
    ELSE <<>>

\* line 172: the states of the rows of a district, distinct, in table order
PossibleStates(dfd, district) ==
    LET idx == {i \in 1..Len(dfd.rows) : dfd.rows[i].district_lower = district}
        RECURSIVE Pick(_)
        Pick(n) == IF n = 0 THEN <<>>
                   ELSE IF n \in idx THEN Append(Pick(n - 1), dfd.rows[n].state_lower)
                   ELSE Pick(n - 1)
    IN Unique(Pick(Len(dfd.rows)))

\* the first candidate state taken even when the district has several
InferState_MutFirst(dfd, found) ==
    IF "district" \in DOMAIN found /\ "state" \notin DOMAIN found
       /\ Len(PossibleStates(dfd, found["district"])) >= 1
    THEN found @@ ("state" :> PossibleStates(dfd, found["district"])[1])
    ELSE found

\* lines 170-174
InferState(dfd, found) ==
    IF "district" \in DOMAIN found /\ "state" \notin DOMAIN found
       /\ Len(PossibleStates(dfd, found["district"])) = 1
    THEN found @@ ("state" :> PossibleStates(dfd, found["district"])[1])
    ELSE found

\* lines 139-176
parse_input(dfc, dfd, user_text) ==
    IF dfc.is_none \/ dfd.is_none THEN <<>>
    ELSE LET text == Lower(user_text)
         IN InferState(dfd, FoundCrop(dfc, text) @@ FoundDistrict(dfd, text)
                                 @@ FoundState(dfd, text))

----------------------------------------------------------------------------
(* Chat logic *)

\* entities.get(k) is truthy: k was found and is not the empty string
Truthy(found, k) == k \in DOMAIN found /\ found[k] # <<>>

Plain(kind) == [kind |-> kind]

\* the state asked for as soon as a district is known without one
Respond_MutAskState(dfc, dfd, found) ==
    LET district == Truthy(found, "district")
        state == Truthy(found, "state")
        crop == Truthy(found, "crop")
    IN IF dfc.is_none \/ dfd.is_none THEN Plain("system_error")
       ELSE IF district /\ state /\ crop
       THEN calculate_reduction(dfc, dfd, found["district"], found["state"], found["crop"])
       ELSE IF district /\ ~state
       THEN [kind |-> "need_state", district |-> Title(found["district"])]
       ELSE IF ~district /\ ~crop THEN Plain("need_crop_and_district")
       ELSE IF ~district THEN Plain("need_district")
       ELSE IF ~crop THEN [kind |-> "need_crop", district |-> Title(found["district"])]
       ELSE Plain("fallback")

\* lines 203-222: response_text
Respond(dfc, dfd, found) ==
    LET district == Truthy(found, "district")
        state == Truthy(found, "state")
        crop == Truthy(found, "crop")
    IN IF dfc.is_none \/ dfd.is_none THEN Plain("system_error")
       ELSE IF district /\ state /\ crop
       THEN calculate_reduction(dfc, dfd, found["district"], found["state"], found["crop"])
       ELSE IF district /\ crop /\ ~state
       THEN [kind |-> "need_state", district |-> Title(found["district"])]
       ELSE IF ~district /\ ~crop THEN Plain("need_crop_and_district")
       ELSE IF ~district THEN Plain("need_district")
       ELSE IF ~crop THEN [kind |-> "need_crop", district |-> Title(found["district"])]
       ELSE Plain("fallback")

UserMsg(text) == [role |-> "user", content |-> text]
AssistantMsg(resp) == [role |-> "assistant", content |-> resp]

\* lines 183-186
Greeting == AssistantMsg(Plain("greeting"))

NoCall == [fn |-> "none"]

\* where a script run without a chat message ends.  A script run is ended at a call of
\* st.* when another event is pending: "sidebar" at lines 7-24, before the tables are
\* loaded; "banner" at st.error / st.warning of lines 75-80, after the load and before
\* the message is shown; "none" is the run that passes line 80.
RunStops == {"none", "sidebar", "banner"}

\* lines 7-80: a script run without a chat message, on the sources cs and ds it finds:
\* the uploads, or the default files as they are on disk at that moment
Run(cs, ds, stop) ==
    /\ (stop # "sidebar" /\ Misses(cache, cs, ds)) => Cardinality(cache) < MaxCached
    /\ crop_input' = cs
    /\ dist_input' = ds
    /\ IF stop = "sidebar"
       THEN /\ cache_miss' = FALSE
            /\ UNCHANGED <<df_crop, df_dist, error_msg, cache>>
       ELSE /\ df_crop' = LoadResult(cache, cs, ds).crop
            /\ df_dist' = LoadResult(cache, cs, ds).dist
            /\ error_msg' = LoadResult(cache, cs, ds).err
            /\ cache' = CacheAfter(cache, cs, ds)
            /\ cache_miss' = Misses(cache, cs, ds)
    /\ banner' = IF stop = "none"
                 THEN Banner(cs, ds, LoadResult(cache, cs, ds))
                 ELSE "none"
    /\ entities' = <<>>
    /\ crashed' = FALSE
    /\ interrupted' = FALSE
    /\ UNCHANGED <<messages, call>>

\* lines 18-19, 64-70: what a script run finds when the upload widgets were not touched:
\* the same uploads, and the default files as they are on disk at that moment
SameUploads(cs, ds) ==
    /\ cs.origin = crop_input.origin
    /\ ds.origin = dist_input.origin
    /\ cs.origin = "upload" => cs = crop_input
    /\ ds.origin = "upload" => ds = dist_input

\* lines 22-24: the script run of a click on the reset button.  It empties the memo and
\* ends at st.rerun(), before line 60; the run that st.rerun() asks for is a script run
\* like any other, and a pending event may be served in its place.
Reset ==
    /\ cache' = {}
    /\ cache_miss' = FALSE
    /\ banner' = "none"
    /\ entities' = <<>>
    /\ crashed' = FALSE
    /\ interrupted' = FALSE
    /\ UNCHANGED <<crop_input, dist_input, df_crop, df_dist, error_msg, messages, call>>

\* the chat turns a history holds: its user entries
Turns(msgs) == Cardinality({i \in 1..Len(msgs) : msgs[i].role = "user"})

\* where the script run of a chat turn ends.  A script run is ended at a call of st.*
\* when another event (an upload, the reset button, another message) is pending:
\* lines 196-200 after the user's entry was appended, line 224 after the reply was
\* computed; "none" is the run that reaches line 225 or ends in an exception.
StopPoints == {"none", "line_196", "line_224"}

\* lines 28-80, 194-225: the script run of a chat turn.  It loads the tables like every
\* script run (lines 60-80), on the sources cs and ds it finds, and answers on them.
\* An exception of calculate_reduction ends the script run after the user's entry was
\* appended and before the assistant's is; so does a pending event at stop.
Chat(cs, ds, prompt, stop) ==
    /\ prompt # <<>>
    /\ Turns(messages) < MaxTurns
    /\ SameUploads(cs, ds)
    /\ Misses(cache, cs, ds) => Cardinality(cache) < MaxCached
    /\ crop_input' = cs
    /\ dist_input' = ds
    /\ df_crop' = LoadResult(cache, cs, ds).crop
    /\ df_dist' = LoadResult(cache, cs, ds).dist
    /\ error_msg' = LoadResult(cache, cs, ds).err
    /\ banner' = Banner(cs, ds, LoadResult(cache, cs, ds))
    /\ cache' = CacheAfter(cache, cs, ds)
    /\ cache_miss' = Misses(cache, cs, ds)
    /\ entities' = IF stop = "line_196"
                   THEN <<>>
                   ELSE parse_input(df_crop', df_dist', prompt)
    /\ crashed' = /\ stop # "line_196"
                  /\ Respond(df_crop', df_dist', entities').kind = "raise"
    /\ interrupted' = (stop # "none" /\ ~crashed')
    /\ messages' = IF crashed' \/ interrupted'
                   THEN Append(messages, UserMsg(prompt))
                   ELSE messages \o <<UserMsg(prompt),
                                      AssistantMsg(Respond(df_crop', df_dist', entities'))>>
    /\ UNCHANGED call

\* the first script run of a session, on the sources cs and ds
FirstRun(cs, ds) ==
    /\ crop_input = cs
    /\ dist_input = ds
    /\ df_crop = LoadResult({}, cs, ds).crop
    /\ df_dist = LoadResult({}, cs, ds).dist
    /\ error_msg = LoadResult({}, cs, ds).err
    /\ banner = Banner(cs, ds, LoadResult({}, cs, ds))
    /\ cache = CacheAfter({}, cs, ds)
    /\ cache_miss = Misses({}, cs, ds)
    /\ messages = <<Greeting>>
    /\ entities = <<>>
    /\ call = NoCall
    /\ crashed = FALSE
    /\ interrupted = FALSE

\* direct calls of the lookup functions on the loaded tables
CallGetCropNReq(crop) ==
    /\ call = NoCall
    /\ call' = [fn |-> "get_crop_n_req", crop |-> crop,
                ret |-> get_crop_n_req(df_crop, crop)]
    /\ UNCHANGED <<crop_input, dist_input, df_crop, df_dist, error_msg, banner,
                   messages, entities, crashed, interrupted, cache, cache_miss>>

CallGetSoilNData(district, state) ==
    /\ call = NoCall
    /\ call' = [fn |-> "get_soil_n_data", district |-> district, state |-> state,
                ret |-> get_soil_n_data(df_dist, district, state)]
    /\ UNCHANGED <<crop_input, dist_input, df_crop, df_dist, error_msg, banner,
                   messages, entities, crashed, interrupted, cache, cache_miss>>

CallCalculateReduction(district, state, crop) ==
    /\ call = NoCall
    /\ call' = [fn |-> "calculate_reduction",
                district |-> district, state |-> state, crop |-> crop,
                ret |-> calculate_reduction(df_crop, df_dist, district, state, crop)]
    /\ UNCHANGED <<crop_input, dist_input, df_crop, df_dist, error_msg, banner,
                   messages, entities, crashed, interrupted, cache, cache_miss>>

----------------------------------------------------------------------------
(* Inputs *)

\* lines 18-19, 68-69: a source.  name is the path of a default file or the file name
\* of an upload, pos the read position of the file object handed to the script run.
Source(origin, exists, readable, columns, rows) ==
    [origin |-> origin, name |-> IF origin = "default" THEN "path" ELSE "upload.csv",
     pos |-> 0, exists |-> exists, readable |-> readable,
     columns |-> columns, rows |-> rows]

\* the same content uploaded under another file name
Renamed(src) == [src EXCEPT !.name = "other.csv"]

CropRow(c, n) == [crop |-> c, N |-> n]
DistRow(d, s, v) == [district |-> d, state |-> s, soil |-> v]

\* sequences of 1..n rows of the set rows
Tables(rows, n) == UNION {[1..k -> rows] : k \in 1..n}

CropColumns == {"crop", "N"}
DistColumns == {"district", "state", "soil"}

MissingDefault == Source("default", FALSE, FALSE, {}, <<>>)
Unreadable(origin) == Source(origin, TRUE, FALSE, {}, <<>>)

\* -- a session: a few files, a few messages
SessionCropRows == <<CropRow(<<"A">>, <<"1", "-", "2">>), CropRow(<<"b">>, <<"-", "1">>)>>
SessionDistRows == <<DistRow(<<"a">>, <<"a", ".">>, 2), DistRow(<<"B", " ">>, <<"b">>, 1)>>

SessionCropSources ==
    {MissingDefault, Unreadable("default"),
     Source("default", TRUE, TRUE, CropColumns, SessionCropRows),
     Source("upload", TRUE, TRUE, CropColumns, SubSeq(SessionCropRows, 1, 1))}

SessionDistSources ==
    {MissingDefault,
     Source("default", TRUE, TRUE, DistColumns, SessionDistRows),
     Source("upload", TRUE, TRUE, DistColumns, SubSeq(SessionDistRows, 1, 1))}

SessionPrompts == {<<"a">>, <<"b">>}

\* -- a single turn: every short message, on every small district table
TurnCropSources ==
    {Source("upload", TRUE, TRUE, CropColumns,
            <<CropRow(<<"a", ".">>, <<"x">>), CropRow(<<" ", "A">>, <<"1", "-", "2">>)>>),
     Source("upload", TRUE, TRUE, CropColumns,
            <<CropRow(<<"a", "b">>, <<"2">>), CropRow(<<"a">>, <<"-", "1">>)>>),
     Source("upload", TRUE, TRUE, {"N"}, <<CropRow(<<>>, <<"2">>)>>),
     Source("upload", TRUE, TRUE, CropColumns, <<CropRow(<<" ">>, <<"2">>)>>)}

TurnDistRows ==
    {DistRow(d, s, 2) : d \in {<<"a">>, <<"B", " ">>}, s \in {<<"b">>, <<"a", ".">>}}

TurnDistSources ==
    {Source("upload", TRUE, TRUE, DistColumns, t) : t \in Tables(TurnDistRows, MaxDistRows)}

TurnPrompts == Texts(TextChars, MaxTextLen)

\* -- the lookup functions: every small crop table over these cells
LookupCells ==
    {<<"2">>, <<"1", "2">>, <<"1", "-", "2">>, <<"1", "0", "0", "-", "1", "2", "0">>,
     <<"-", "1">>, <<"1", "-">>, <<"x">>, <<"x", "-", "x">>}

LookupCropRows == {CropRow(c, n) : c \in {<<"a">>, <<"b">>}, n \in LookupCells}

LookupCropSources ==
    {Source("upload", TRUE, TRUE, CropColumns, t) : t \in Tables(LookupCropRows, MaxCropRows)}

LookupDistSources ==
    {Source("upload", TRUE, TRUE, DistColumns, <<DistRow(<<"a">>, <<"b">>, v)>>) :
        v \in {0, 2, 150}}

LookupKeys == {<<"a">>, <<"b">>, <<"a", "b">>}

\* -- the loader: every shape of source
LoadCropSources ==
    {MissingDefault, Unreadable("default"),
     Source("default", TRUE, TRUE, CropColumns, SessionCropRows),
     Source("upload", TRUE, TRUE, CropColumns, SessionCropRows),
     Source("upload", TRUE, TRUE, {"N"}, SessionCropRows),
     Renamed(Source("upload", TRUE, TRUE, {"N"}, SessionCropRows))}

LoadDistSources ==
    {MissingDefault, Unreadable("upload"),
     Source("default", TRUE, TRUE, DistColumns, SessionDistRows),
     Source("upload", TRUE, TRUE, DistColumns, SessionDistRows),
     Source("upload", TRUE, TRUE, {"district", "soil"}, SessionDistRows)}

----------------------------------------------------------------------------
(* Specifications *)

\* a session: files are uploaded or appear, messages are sent
Init == FirstRun(MissingDefault, MissingDefault)

Next ==
    \/ \E cs \in SessionCropSources, ds \in SessionDistSources, stop \in RunStops :
          Run(cs, ds, stop)
    \/ Reset
    \/ \E cs \in SessionCropSources, ds \in SessionDistSources, p \in SessionPrompts,
          stop \in StopPoints :
          Chat(cs, ds, p, stop)

Spec == Init /\ [][Next]_vars

\* the loader on every shape of source
NextLoad ==
    \/ \E cs \in LoadCropSources, ds \in LoadDistSources, stop \in RunStops :
          Run(cs, ds, stop)
    \/ Reset

SpecLoad == Init /\ [][NextLoad]_vars

\* one chat turn on loaded tables, its run not ended by another event
InitTurn == \E cs \in TurnCropSources, ds \in TurnDistSources : FirstRun(cs, ds)

NextTurn == \E p \in TurnPrompts : Len(messages) = 1 /\ Chat(crop_input, dist_input, p, "none")

SpecTurn == InitTurn /\ [][NextTurn]_vars

\* the lookup functions and the recommendation engine on loaded tables
InitLookup == \E cs \in LookupCropSources, ds \in LookupDistSources : FirstRun(cs, ds)

NextLookup ==
    \/ \E c \in LookupKeys : CallGetCropNReq(c)
    \/ \E d \in LookupKeys, s \in LookupKeys : CallGetSoilNData(d, s)
    \/ \E d \in LookupKeys, c \in LookupKeys : CallCalculateReduction(d, <<"b">>, c)

SpecLookup == InitLookup /\ [][NextLookup]_vars

----------------------------------------------------------------------------
(* Claims about the lookup layer and the recommendation engine (SpecLookup) *)

\* the cell of the first row of the crop table whose key is crop
HasCrop(crop) == \E i \in 1..Len(df_crop.rows) : df_crop.rows[i].crop_lower = crop

FirstCell(crop) ==
    LET i == CHOOSE j \in 1..Len(df_crop.rows) :
                 /\ df_crop.rows[j].crop_lower = crop
                 /\ \A k \in 1..(j - 1) : df_crop.rows[k].crop_lower # crop
    IN df_crop.rows[i].N

\* a plain number: an unsigned run of digits
IsPlainNumber(cell) == cell # <<>> /\ \A i \in 1..Len(cell) : cell[i] \in Digits

\* a range: two plain numbers with one hyphen between them
IsRange(cell) ==
    \E h \in 2..(Len(cell) - 1) :
        /\ cell[h] = "-"
        /\ IsPlainNumber(SubSeq(cell, 1, h - 1))
        /\ IsPlainNumber(SubSeq(cell, h + 1, Len(cell)))

RangeLow(cell) == FloatOf(SubSeq(cell, 1, (CHOOSE h \in 1..Len(cell) : cell[h] = "-") - 1))

RangeHigh(cell) ==
    FloatOf(SubSeq(cell, (CHOOSE h \in 1..Len(cell) : cell[h] = "-") + 1, Len(cell)))

\* C3: for a crop key present in the table, get_crop_n_req returns the midpoint
\* (low + high) / 2 of a stored range and the stored number itself of a plain number,
\* read from the first row whose normalized key equals the argument.
C3_MidpointOrLiteral ==
    (call.fn = "get_crop_n_req" /\ HasCrop(call.crop)) =>
        /\ IsRange(FirstCell(call.crop)) =>
              /\ call.ret.kind = "value"
              /\ call.ret.v = RangeLow(FirstCell(call.crop)) + RangeHigh(FirstCell(call.crop))
        /\ IsPlainNumber(FirstCell(call.crop)) =>
              /\ call.ret.kind = "value"
              /\ call.ret.v = 2 * FloatOf(FirstCell(call.crop))

\* the range 100-120 of the second row, under another crop's row, gives 110
C3_Witness ==
    /\ call.fn = "get_crop_n_req"
    /\ Len(df_crop.rows) = 2
    /\ df_crop.rows[1].crop_lower # call.crop
    /\ df_crop.rows[2].crop_lower = call.crop
    /\ IsPlainNumber(df_crop.rows[1].N)
    /\ df_crop.rows[2].N = <<"1", "0", "0", "-", "1", "2", "0">>
    /\ call.ret = Value(220)

\* C4 (as claimed): get_crop_n_req returns None and never raises for an absent key
\* and for a present key whose value is neither a plain number nor a range, hyphenated
\* values included; calculate_reduction then returns the crop-not-found message.
C4_NotFoundNeverRaises ==
    /\ (call.fn = "get_crop_n_req"
        /\ (~HasCrop(call.crop)
            \/ ~(IsPlainNumber(FirstCell(call.crop)) \/ IsRange(FirstCell(call.crop)))))
       => call.ret = NoneVal
    /\ (call.fn = "calculate_reduction"
        /\ (~HasCrop(call.crop)
            \/ ~(IsPlainNumber(FirstCell(call.crop)) \/ IsRange(FirstCell(call.crop)))))
       => call.ret = CropNotFound(call.crop)

\* C5: when calculate_reduction resolves a requirement and a soil value it returns a
\* report with excess = soil - req and reduction = excess / 0.46, whatever the sign of
\* the excess; the printed reduction is that quotient rounded to hundredths.
C5_ExcessAndReduction ==
    (/\ call.fn = "calculate_reduction"
     /\ get_crop_n_req(df_crop, call.crop).kind = "value"
     /\ get_soil_n_data(df_dist, call.district, call.state).kind = "value") =>
        LET req2 == get_crop_n_req(df_crop, call.crop).v
            soil == get_soil_n_data(df_dist, call.district, call.state).v
            r == call.ret
        IN /\ r.kind = "report"
           /\ r.excess2 = 2 * soil - req2
           /\ 2 * 46 * r.savings_num = 100 * r.excess2 * r.savings_den
           /\ r.savings_den > 0
           /\ r.excess_1f = 10 * soil - 5 * req2
           /\ 46 * r.savings_2f - 5000 * r.excess2 <= 23
           /\ 5000 * r.excess2 - 46 * r.savings_2f <= 23

\* a report of a negative excess: requirement 12, soil 2, excess -10.0, reduction -21.74
C5_Witness ==
    /\ call.fn = "calculate_reduction"
    /\ call.ret.kind = "report"
    /\ call.ret.excess2 = -20
    /\ call.ret.excess_1f = -100
    /\ call.ret.savings_2f = -2174

----------------------------------------------------------------------------
(* Claims about one chat turn (SpecTurn) *)

TurnStarted == Len(messages) >= 2
TurnDone == Len(messages) = 3
Prompt == messages[2].content
Reply == messages[3].content

Known(k) == k \in DOMAIN entities

\* C1 (as claimed): with both tables loaded, the reply follows from which of district,
\* crop and state the extractor returned: all three -> the result of
\* calculate_reduction; district and crop without state -> the question for the state;
\* neither district nor crop -> the generic clarification; district without crop -> the
\* question for the crop; crop without district -> the question for the district;
\* never the fallback.
C1_ReplyByEntities ==
    (TurnStarted /\ ~df_crop.is_none /\ ~df_dist.is_none) =>
        /\ TurnDone
        /\ (Known("district") /\ Known("state") /\ Known("crop")) =>
              /\ Reply = calculate_reduction(df_crop, df_dist, entities["district"],
                                             entities["state"], entities["crop"])
              /\ Reply.kind # "raise"
        /\ (Known("district") /\ Known("crop") /\ ~Known("state")) =>
              Reply.kind = "need_state"
        /\ (~Known("district") /\ ~Known("crop")) =>
              Reply.kind = "need_crop_and_district"
        /\ (Known("district") /\ ~Known("crop")) => Reply.kind = "need_crop"
        /\ (Known("crop") /\ ~Known("district")) => Reply.kind = "need_district"
        /\ Reply.kind # "fallback"

\* the distinct states the district table lists for a district
StatesOf(district) ==
    {df_dist.rows[i].state_lower :
        i \in {j \in 1..Len(df_dist.rows) : df_dist.rows[j].district_lower = district}}

\* the message names a district of two or more states and nothing else
OnlyAmbiguousDistrict ==
    /\ TurnStarted
    /\ DOMAIN entities = {"district"}
    /\ Cardinality(StatesOf(entities["district"])) >= 2

StateInText ==
    \E i \in 1..Len(df_dist.rows) : re_search(df_dist.rows[i].state_lower, Lower(Prompt))

\* the first state key, in table order, matched in the lower-cased message
FirstStateInText ==
    df_dist.rows[CHOOSE i \in 1..Len(df_dist.rows) :
                    /\ re_search(df_dist.rows[i].state_lower, Lower(Prompt))
                    /\ \A k \in 1..(i - 1) :
                          ~re_search(df_dist.rows[k].state_lower, Lower(Prompt))].state_lower

\* C6: with a district matched and no state matched in the text, the state is set
\* exactly when the district occurs with one distinct state in the table, and to that
\* state; a state matched in the text is kept.
C6_StateInference ==
    (TurnStarted /\ ~df_crop.is_none /\ ~df_dist.is_none) =>
        /\ (Known("district") /\ ~StateInText) =>
              /\ Known("state") <=> Cardinality(StatesOf(entities["district"])) = 1
              /\ Known("state") => StatesOf(entities["district"]) = {entities["state"]}
        /\ StateInText => (Known("state") /\ entities["state"] = FirstStateInText)
        /\ (~Known("district") /\ ~StateInText) => ~Known("state")

\* two rows of one district with the same state: the state is inferred
C6_Witness ==
    /\ TurnStarted
    /\ Len(df_dist.rows) = 2
    /\ df_dist.rows[1].district_lower = df_dist.rows[2].district_lower
    /\ Known("district") /\ entities["district"] = df_dist.rows[1].district_lower
    /\ ~StateInText
    /\ Known("state") /\ entities["state"] = df_dist.rows[2].state_lower

\* e occurs in text as a whole word: bounded on each side by a non-word character or
\* by the start or end of the text
OccursAsWord(e, text) ==
    \E p \in 0..(Len(text) - Len(e)) :
        /\ SubSeq(text, p + 1, p + Len(e)) = e
        /\ p = 0 \/ ~IsWordChar(text[p])
        /\ p + Len(e) = Len(text) \/ ~IsWordChar(text[p + Len(e) + 1])

Vocabulary(df, col) == IF col \in df.columns THEN Column(df, col) ELSE <<>>

SomeOccurs(vocab, text) == \E i \in 1..Len(vocab) : OccursAsWord(vocab[i], text)

FirstOccurring(vocab, text) ==
    vocab[CHOOSE i \in 1..Len(vocab) :
             /\ OccursAsWord(vocab[i], text)
             /\ \A k \in 1..(i - 1) : ~OccursAsWord(vocab[k], text)]

\* C7 (as claimed): for each vocabulary parse_input returns the first entry, in table
\* order, that occurs in the lower-cased text as a whole word, and nothing when none
\* does, for every entry, those that begin or end with a non-word character included.
C7_FirstWholeWord ==
    (TurnStarted /\ ~df_crop.is_none /\ ~df_dist.is_none) =>
        LET text == Lower(Prompt)
            crops == Vocabulary(df_crop, "crop_lower")
            districts == Vocabulary(df_dist, "district_lower")
            states == Vocabulary(df_dist, "state_lower")
        IN /\ IF SomeOccurs(crops, text)
              THEN Known("crop") /\ entities["crop"] = FirstOccurring(crops, text)
              ELSE ~Known("crop")
           /\ IF SomeOccurs(districts, text)
              THEN Known("district") /\ entities["district"] = FirstOccurring(districts, text)
              ELSE ~Known("district")
           /\ SomeOccurs(states, text) =>
                 (Known("state") /\ entities["state"] = FirstOccurring(states, text))

\* the pair (district, state) is a row of the district table
PairInTable(district, state) ==
    \E i \in 1..Len(df_dist.rows) :
        /\ df_dist.rows[i].district_lower = district
        /\ df_dist.rows[i].state_lower = state

\* C10: a state filled by inference forms, with the district, a row of the district
\* table, so the soil lookup finds a value; a turn ends in the soil-not-found message
\* only when the state was matched in the text and does not occur with the district.
C10_InferredPairFound ==
    (TurnStarted /\ ~df_crop.is_none /\ ~df_dist.is_none) =>
        /\ (Known("district") /\ Known("state") /\ ~StateInText) =>
              /\ PairInTable(entities["district"], entities["state"])
              /\ get_soil_n_data(df_dist, entities["district"], entities["state"]).kind
                    = "value"
              /\ TurnDone => Reply.kind # "soil_not_found"
        /\ (TurnDone /\ Reply.kind = "soil_not_found") =>
              /\ StateInText
              /\ ~PairInTable(entities["district"], entities["state"])

\* the state of a district written "B " in the table is inferred and the report is made
C10_Witness ==
    /\ TurnDone
    /\ Known("district") /\ Known("state") /\ ~StateInText
    /\ \E i \in 1..Len(df_dist.rows) :
          /\ df_dist.rows[i].district # df_dist.rows[i].district_lower
          /\ df_dist.rows[i].district_lower = entities["district"]
    /\ Reply.kind = "report"

----------------------------------------------------------------------------
(* Claims about the loader (SpecLoad) *)

\* the last script run reached the call of load_data_v2 (line 70)
LoaderCalled == LoaderReached(crop_input, dist_input)

BothReadable == crop_input.readable /\ dist_input.readable

\* C8 (as claimed): load_data_v2, when its body runs, returns a load error and no
\* tables when a source is unreadable or lacks an expected column (crop; district or
\* state), so that after a successful load crop_lower, district_lower and state_lower
\* exist.
C8_ErrorOnMissingColumn ==
    (LoaderCalled /\ cache_miss) =>
        /\ (\/ ~BothReadable
            \/ "crop" \notin crop_input.columns
            \/ "district" \notin dist_input.columns
            \/ "state" \notin dist_input.columns)
           => (error_msg # "" /\ df_crop.is_none /\ df_dist.is_none)
        /\ error_msg = "" =>
              /\ "crop_lower" \in df_crop.columns
              /\ {"district_lower", "state_lower"} \subseteq df_dist.columns

----------------------------------------------------------------------------
(* Claims about a session (Spec) *)

\* C9 (as claimed): with unchanged tables every turn, unless another event ends its
\* run, appends one user entry followed by one assistant entry and changes no earlier
\* entry, and the reply depends only on the text of that turn.
C9_TurnAppendsPair ==
    [][(/\ messages' # messages
        /\ ~interrupted'
        /\ df_crop' = df_crop /\ df_dist' = df_dist) =>
          /\ Len(messages') = Len(messages) + 2
          /\ SubSeq(messages', 1, Len(messages)) = messages
          /\ messages'[Len(messages) + 1].role = "user"
          /\ messages'[Len(messages) + 2].role = "assistant"
          /\ entities' = parse_input(df_crop, df_dist, messages'[Len(messages) + 1].content)
          /\ messages'[Len(messages) + 2].content = Respond(df_crop, df_dist, entities')
      ]_vars

====
